---- MODULE Spec2Model ----
(***************************************************************************)
(* A model of crates/juper_swap_api/src/api.rs: the URL builders, the      *)
(* transaction decode pipeline, the route-map decompressor and the facade  *)
(* calls (blocking and non-blocking) of the JupAPI trait.                  *)
(*                                                                         *)
(* Four specifications share the module's variables:                       *)
(*   SpecRouteMap  API::process_route_map_response on bounded inputs       *)
(*   SpecSwap      API::process_swap_response on bounded inputs            *)
(*   SpecUrl       route_map_str, swap_str, price_str                      *)
(*   Spec          the eight facade calls against an arbitrary transport   *)
(***************************************************************************)
EXTENDS Integers, Sequences, FiniteSets, TLC

VARIABLES
    rm_pc,        \* route map: "called", "returned"
    rm_response,  \* the IndexedRouteMap handed to process_route_map_response
    rm_origin,    \* the RouteMap the response was compressed from, if any
    rm_result,    \* what the call produced
    sw_pc,        \* swap: "received", "deserialized", "returned"
    sw_wire,      \* the JSON object of the swap endpoint's reply
    sw_response,  \* the SwapResponse deserialized from it
    sw_result,    \* what the call produced
    url_api,      \* URL builders: the API variant, "V1", "V2" or "V3"
    url_call,     \* the last builder called, with its arguments
    url_got,      \* what it returned
    url_calls,    \* how many builder calls were made
    fc_op,        \* facade: the operation both call shapes run
    fc_args,      \* its arguments
    fc_call       \* per call shape: where the call stands and what it did

rmVars == <<rm_pc, rm_response, rm_origin, rm_result>>

swVars == <<sw_pc, sw_wire, sw_response, sw_result>>

urlVars == <<url_api, url_call, url_got, url_calls>>

fcVars == <<fc_op, fc_args, fc_call>>

vars == <<rmVars, swVars, urlVars, fcVars>>

(***************************************************************************)
(* Results.  anyhow::Result<T> is Ok(v) or Err(e); a panic is neither: the *)
(* call does not return.                                                   *)
(***************************************************************************)
Ok(v) == [tag |-> "Ok", val |-> v]

Err(e) == [tag |-> "Err", err |-> e]

Panic(m) == [tag |-> "Panic", msg |-> m]

None == [tag |-> "None"]

Some(v) == [tag |-> "Some", val |-> v]

NoResult == [tag |-> "NoResult"]

(***************************************************************************)
(* Bounds.                                                                 *)
(***************************************************************************)
MaxMints == 2

MaxDest == 2

MaxEntries == 1

MaxCalls == 2

(***************************************************************************)
(* Addresses.  A Pubkey is a value of its own; its text form is base58.    *)
(* "0OIl" holds characters outside the base58 alphabet and does not parse. *)
(***************************************************************************)
PubkeyText == ("A" :> 1) @@ ("B" :> 2) @@ ("C" :> 3) @@ ("amount" :> 4)

Pubkeys == {PubkeyText[s] : s \in DOMAIN PubkeyText}

\* the mint texts and addresses the route maps are drawn from
MintStrings == {"A", "B", "C", "0OIl"}

RouteAddresses == {1, 2, 3}

\* str::parse::<Pubkey>()
ParsePubkey(s) ==
    IF s \in DOMAIN PubkeyText THEN Ok(PubkeyText[s])
    ELSE Err([kind |-> "ParsePubkeyError", context |-> <<>>])

\* Pubkey's Display, the inverse of parsing
PubkeyToString(k) == CHOOSE s \in DOMAIN PubkeyText : PubkeyText[s] = k

(***************************************************************************)
(* Sequences and maps.                                                     *)
(***************************************************************************)
SeqsUpTo(S, n) == UNION {[1..m -> S] : m \in 0..n}

\* v[i] of a Vec, indexed from 0
At(v, i) == v[i + 1]

EmptyMap == <<>>

\* HashMap::insert: the last write for a key wins
MapInsert(m, k, v) == [x \in DOMAIN m \cup {k} |-> IF x = k THEN v ELSE m[x]]

\* every order in which the elements of S can be visited
Orders(S) == {o \in [1..Cardinality(S) -> S] : \A x \in S : \E i \in DOMAIN o : o[i] = x}

(***************************************************************************)
(* API::process_route_map_response                                         *)
(***************************************************************************)
\* mint_keys.into_iter().map(parse).collect::<Result<Vec<_>>>()?
ParseMintKeys(mint_keys) ==
    LET bad == {i \in DOMAIN mint_keys : ParsePubkey(mint_keys[i]).tag = "Err"}
    IN  IF bad = {}
        THEN Ok([i \in DOMAIN mint_keys |-> ParsePubkey(mint_keys[i]).val])
        ELSE ParsePubkey(mint_keys[CHOOSE i \in bad : \A j \in bad : i <= j])

\* one pass of the for loop's body: mint_keys[from_index] and mint_keys[i]
\* are slice indexings, which panic when the index is out of bounds
InsertEntrySourceAsDest(route_map, mint_keys, from_index, to_indices) ==
    IF from_index >= Len(mint_keys)
       \/ \E j \in DOMAIN to_indices : to_indices[j] >= Len(mint_keys)
    THEN Panic("index out of bounds")
    ELSE Ok(MapInsert(route_map, At(mint_keys, from_index),
                      [j \in DOMAIN to_indices |-> At(mint_keys, from_index)]))

InsertEntryReversed(route_map, mint_keys, from_index, to_indices) ==
    IF from_index >= Len(mint_keys)
       \/ \E j \in DOMAIN to_indices : to_indices[j] >= Len(mint_keys)
    THEN Panic("index out of bounds")
    ELSE Ok(MapInsert(route_map, At(mint_keys, from_index),
                      [j \in DOMAIN to_indices |->
                          At(mint_keys, to_indices[Len(to_indices) + 1 - j])]))

InsertEntry(route_map, mint_keys, from_index, to_indices) ==
    IF from_index >= Len(mint_keys)
       \/ \E j \in DOMAIN to_indices : to_indices[j] >= Len(mint_keys)
    THEN Panic("index out of bounds")
    ELSE Ok(MapInsert(route_map, At(mint_keys, from_index),
                      [j \in DOMAIN to_indices |-> At(mint_keys, to_indices[j])]))

\* the for loop over response.indexed_route_map, visited in `order`
RECURSIVE InsertAll(_, _, _, _)
InsertAll(route_map, mint_keys, indexed, order) ==
    IF order = <<>> THEN Ok(route_map)
    ELSE LET step == InsertEntry(route_map, mint_keys, Head(order), indexed[Head(order)])
         IN  IF step.tag = "Ok"
             THEN InsertAll(step.val, mint_keys, indexed, Tail(order))
             ELSE step

\* `order` is the iteration order of the indexed map, which the map decides
process_route_map_response(response, order) ==
    LET mint_keys == ParseMintKeys(response.mint_keys)
    IN  IF mint_keys.tag = "Err" THEN mint_keys
        ELSE InsertAll(EmptyMap, mint_keys.val, response.indexed_route_map, order)

(***************************************************************************)
(* Inputs of SpecRouteMap.                                                 *)
(***************************************************************************)
\* an index at most one past the longest mintKeys
Indices == 0..MaxMints

IndexSeqs == SeqsUpTo(Indices, MaxDest)

IndexedMaps ==
    UNION {[S -> IndexSeqs] : S \in {T \in SUBSET Indices : Cardinality(T) <= MaxEntries}}

WireRouteMaps ==
    [mint_keys : SeqsUpTo(MintStrings, MaxMints), indexed_route_map : IndexedMaps]

\* the example of the specification's section 8
ExampleRouteMap ==
    [mint_keys |-> <<"A", "B", "C">>,
     indexed_route_map |-> (0 :> <<1, 2>>) @@ (1 :> <<2>>)]

RouteMaps ==
    UNION {[S -> SeqsUpTo(RouteAddresses, MaxDest)] :
              S \in {T \in SUBSET RouteAddresses : Cardinality(T) <= MaxEntries}}

\* the addresses a RouteMap mentions
AddressesOf(R) == DOMAIN R \cup UNION {{R[k][j] : j \in DOMAIN R[k]} : k \in DOMAIN R}

\* the index of address k in the address table
IndexOf(table, k) == (CHOOSE i \in DOMAIN table : table[i] = k) - 1

\* R with each address replaced by its index into `table`, which lists the
\* addresses of R once each
Compress(R, table) ==
    [mint_keys |-> [i \in DOMAIN table |-> PubkeyToString(table[i])],
     indexed_route_map |->
        [s \in {IndexOf(table, k) : k \in DOMAIN R} |->
            LET k == CHOOSE k \in DOMAIN R : IndexOf(table, k) = s
            IN  [j \in DOMAIN R[k] |-> IndexOf(table, R[k][j])]]]

NoOrigin == [given |-> FALSE, map |-> EmptyMap]

IdleRouteMap ==
    /\ rm_pc = "unused"
    /\ rm_response = None
    /\ rm_origin = NoOrigin
    /\ rm_result = NoResult

StartRouteMap ==
    /\ rm_pc = "called"
    /\ rm_result = NoResult
    /\ \/ /\ rm_response \in WireRouteMaps \cup {ExampleRouteMap}
          /\ rm_origin = NoOrigin
       \/ \E R \in RouteMaps : \E table \in Orders(AddressesOf(R)) :
             /\ rm_response = Compress(R, table)
             /\ rm_origin = [given |-> TRUE, map |-> R]

ProcessRouteMapResponse ==
    /\ rm_pc = "called"
    /\ \E order \in Orders(DOMAIN rm_response.indexed_route_map) :
          rm_result' = process_route_map_response(rm_response, order)
    /\ rm_pc' = "returned"
    /\ UNCHANGED <<rm_response, rm_origin, swVars, urlVars, fcVars>>

(***************************************************************************)
(* The transaction decode pipeline: API::process_swap_response.            *)
(***************************************************************************)
\* base64::decode of the texts the model draws from: three that are
\* base64 ("dHgx" is tx1, "dHgy" is tx2, "AAAA" is three zero bytes) and
\* one that is not
Base64Table ==
    ("dHgx" :> <<116, 120, 49>>) @@ ("dHgy" :> <<116, 120, 50>>) @@ ("AAAA" :> <<0, 0, 0>>)

Blobs == DOMAIN Base64Table \cup {"!!!!"}

base64_decode(text) ==
    IF text \in DOMAIN Base64Table THEN Ok(Base64Table[text])
    ELSE Err([kind |-> "base64::DecodeError", context |-> <<>>])

\* bincode::deserialize::<Transaction> of the byte strings above: two of
\* them are transactions
BincodeTable ==
    (<<116, 120, 49>> :> [transaction |-> 1]) @@ (<<116, 120, 50>> :> [transaction |-> 2])

Transactions == {BincodeTable[b] : b \in DOMAIN BincodeTable}

bincode_deserialize(bytes) ==
    IF bytes \in DOMAIN BincodeTable THEN Ok(BincodeTable[bytes])
    ELSE Err([kind |-> "bincode::Error", context |-> <<>>])

\* fn decode(base64_transaction: String) -> anyhow::Result<Transaction>
decode(base64_transaction) ==
    LET bytes == base64_decode(base64_transaction)
    IN  IF bytes.tag = "Err" THEN bytes ELSE bincode_deserialize(bytes.val)

\* Option::map(decode).transpose()
decode_optional(field) ==
    IF field.tag = "None" THEN Ok(None)
    ELSE LET tx == decode(field.val)
         IN  IF tx.tag = "Err" THEN tx ELSE Ok(Some(tx.val))

process_swap_response_drops_cleanup(response) ==
    LET setup == decode_optional(response.setup_transaction)
        swap == decode(response.swap_transaction)
    IN  IF setup.tag = "Err" THEN setup
        ELSE IF swap.tag = "Err" THEN swap
        ELSE Ok([setup |-> setup.val, swap |-> swap.val, cleanup |-> None])

\* the fields of the Swap literal are evaluated in the order written, and
\* each ? returns the first error
process_swap_response(response) ==
    LET setup == decode_optional(response.setup_transaction)
        swap == decode(response.swap_transaction)
        cleanup == decode_optional(response.cleanup_transaction)
    IN  IF setup.tag = "Err" THEN setup
        ELSE IF swap.tag = "Err" THEN swap
        ELSE IF cleanup.tag = "Err" THEN cleanup
        ELSE Ok([setup |-> setup.val, swap |-> swap.val, cleanup |-> cleanup.val])

OptionalBlobs == {None} \cup {Some(b) : b \in Blobs}

\* the JSON object {setupTransaction?, swapTransaction?, cleanupTransaction?}
WireSwapBodies ==
    [setupTransaction : OptionalBlobs,
     swapTransaction : OptionalBlobs,
     cleanupTransaction : OptionalBlobs]

\* serde's deserialization of the object into SwapResponse, whose
\* swap_transaction is a String: without the field there is no SwapResponse
deserialize_swap_response(body) ==
    IF body.swapTransaction.tag = "None"
    THEN Err([kind |-> "serde_json::Error", context |-> <<>>])
    ELSE Ok([setup_transaction |-> body.setupTransaction,
             swap_transaction |-> body.swapTransaction.val,
             cleanup_transaction |-> body.cleanupTransaction])

IdleSwap ==
    /\ sw_pc = "unused"
    /\ sw_wire = None
    /\ sw_response = None
    /\ sw_result = NoResult

StartSwap ==
    /\ sw_pc = "received"
    /\ sw_wire \in WireSwapBodies
    /\ sw_response = None
    /\ sw_result = NoResult

DeserializeSwapResponse ==
    /\ sw_pc = "received"
    /\ LET typed == deserialize_swap_response(sw_wire)
       IN  IF typed.tag = "Err"
           THEN /\ sw_result' = typed
                /\ sw_pc' = "returned"
                /\ UNCHANGED sw_response
           ELSE /\ sw_response' = typed.val
                /\ sw_pc' = "deserialized"
                /\ UNCHANGED sw_result
    /\ UNCHANGED <<sw_wire, rmVars, urlVars, fcVars>>

ProcessSwapResponse ==
    /\ sw_pc = "deserialized"
    /\ sw_result' = process_swap_response(sw_response)
    /\ sw_pc' = "returned"
    /\ UNCHANGED <<sw_wire, sw_response, rmVars, urlVars, fcVars>>

(***************************************************************************)
(* The URL builders.  A String built by format! is a sequence of           *)
(* characters; the two &'static str results are kept as literals.          *)
(***************************************************************************)
Versions == {"V1", "V2", "V3"}

\* the characters of each address text
TextChars ==
    ("A" :> <<"A">>) @@ ("B" :> <<"B">>) @@ ("C" :> <<"C">>)
    @@ ("amount" :> <<"a", "m", "o", "u", "n", "t">>)

\* Pubkey's Display: its base58 text
PubkeyDisplay(k) == TextChars[PubkeyToString(k)]

DigitChar == <<"0", "1", "2", "3", "4", "5", "6", "7", "8", "9">>

RECURSIVE Decimal(_)
Decimal(n) ==
    IF n < 10 THEN <<DigitChar[n + 1]>>
    ELSE Decimal(n \div 10) \o <<DigitChar[(n % 10) + 1]>>

\* an f64 is NaN, an infinity, or sign, whole part and tenths
Floats ==
    [class : {"finite"}, neg : BOOLEAN, whole : {0, 1, 10, 25}, tenths : {0, 5}]
    \cup [class : {"inf"}, neg : BOOLEAN, whole : {0}, tenths : {0}]
    \cup [class : {"nan"}, neg : {FALSE}, whole : {0}, tenths : {0}]

\* f64's Display: no exponent, no fraction when the value is whole
F64Display(x) ==
    IF x.class = "nan" THEN <<"N", "a", "N">>
    ELSE (IF x.neg THEN <<"-">> ELSE <<>>)
         \o (IF x.class = "inf" THEN <<"i", "n", "f">>
             ELSE Decimal(x.whole)
                  \o (IF x.tenths = 0 THEN <<>> ELSE <<".", DigitChar[x.tenths + 1]>>))

route_map_str_ignores_flag(self, direct) ==
    "https://quote-api.jup.ag/v1/indexed-route-map?onlyDirectRoutes=true"

route_map_str(self, direct) ==
    IF self \in {"V1", "V2", "V3"}
    THEN IF direct
         THEN "https://quote-api.jup.ag/v1/indexed-route-map?onlyDirectRoutes=true"
         ELSE "https://quote-api.jup.ag/v1/indexed-route-map?onlyDirectRoutes=false"
    ELSE "unreachable"

swap_str(self) ==
    IF self \in {"V1", "V2", "V3"} THEN "https://quote-api.jup.ag/v1/swap"
    ELSE "unreachable"

\* "https://quote-api.jup.ag/v1/price?id="
PriceUrlHead ==
    <<"h", "t", "t", "p", "s", ":", "/", "/", "q", "u", "o", "t", "e", "-",
      "a", "p", "i", ".", "j", "u", "p", ".", "a", "g", "/", "v", "1", "/",
      "p", "r", "i", "c", "e", "?", "i", "d", "=">>

\* "&vsToken="
VsTokenParam == <<"&", "v", "s", "T", "o", "k", "e", "n", "=">>

\* "&amount="
AmountParam == <<"&", "a", "m", "o", "u", "n", "t", "=">>

price_str_always_appends(self, input_mint, output_mint, ui_amount) ==
    PriceUrlHead \o PubkeyDisplay(input_mint) \o VsTokenParam \o PubkeyDisplay(output_mint)
    \o AmountParam \o (IF ui_amount.tag = "Some" THEN F64Display(ui_amount.val) ELSE <<>>)

price_str(self, input_mint, output_mint, ui_amount) ==
    PriceUrlHead \o PubkeyDisplay(input_mint) \o VsTokenParam \o PubkeyDisplay(output_mint)
    \o (IF ui_amount.tag = "Some" THEN AmountParam \o F64Display(ui_amount.val) ELSE <<>>)

\* the pieces format! joins: the fixed texts and each argument's Display;
\* slippage and fees hold what their value() returns
quote_str(self, input_mint, output_mint, amount, only_direct_routes, slippage, fees_bps) ==
    <<"https://quote-api.jup.ag/v1/quote?inputMint=", PubkeyToString(input_mint),
      "&outputMint=", PubkeyToString(output_mint),
      "&amount=", Decimal(amount),
      "&onlyDirectRoutes=", IF only_direct_routes THEN "true" ELSE "false",
      "&", slippage, fees_bps>>

OptionalFloats == {None} \cup {Some(x) : x \in Floats}

NoCall == [name |-> "none"]

IdleUrl ==
    /\ url_api = "unused"
    /\ url_call = NoCall
    /\ url_got = None
    /\ url_calls = 0

StartUrl ==
    /\ url_api \in Versions
    /\ url_call = NoCall
    /\ url_got = None
    /\ url_calls = 0

RouteMapStr ==
    /\ url_api \in Versions
    /\ url_calls < MaxCalls
    /\ \E direct \in BOOLEAN :
          /\ url_call' = [name |-> "route_map_str", direct |-> direct]
          /\ url_got' = route_map_str(url_api, direct)
    /\ url_calls' = url_calls + 1
    /\ UNCHANGED <<url_api, rmVars, swVars, fcVars>>

SwapStr ==
    /\ url_api \in Versions
    /\ url_calls < MaxCalls
    /\ url_call' = [name |-> "swap_str"]
    /\ url_got' = swap_str(url_api)
    /\ url_calls' = url_calls + 1
    /\ UNCHANGED <<url_api, rmVars, swVars, fcVars>>

PriceStr ==
    /\ url_api \in Versions
    /\ url_calls < MaxCalls
    /\ \E input_mint \in Pubkeys, output_mint \in Pubkeys, ui_amount \in OptionalFloats :
          /\ url_call' = [name |-> "price_str", input_mint |-> input_mint,
                          output_mint |-> output_mint, ui_amount |-> ui_amount]
          /\ url_got' = price_str(url_api, input_mint, output_mint, ui_amount)
    /\ url_calls' = url_calls + 1
    /\ UNCHANGED <<url_api, rmVars, swVars, fcVars>>

(***************************************************************************)
(* The facade: JupAPI::{quote, price, swap, route_map} and their async     *)
(* counterparts.  The transport is the environment: it fails to connect,   *)
(* or delivers a status and a body.                                        *)
(***************************************************************************)
Shapes == {"blocking", "nonblocking"}

Operations == {"quote", "price", "swap", "route_map"}

ServiceMessage == "slippage tolerance exceeded"

\* bodies: text that is not JSON, or a JSON value of one of these shapes
NotJson == [json |-> FALSE]

Json(v) == [json |-> TRUE, value |-> v]

ErrorEnvelope == [shape |-> "error", error |-> ServiceMessage]

OtherJson == [shape |-> "other"]

QuotesPayload == [shape |-> "quotes", data |-> <<[route |-> 1], [route |-> 2]>>]

PricePayload == [shape |-> "price", data |-> [id |-> 1, vsToken |-> 2, price |-> 25]]

SwapPayloads ==
    {[shape |-> "swap", body |-> b] : b \in
        {[setupTransaction |-> None, swapTransaction |-> Some("dHgx"),
          cleanupTransaction |-> None],
         [setupTransaction |-> Some("dHgy"), swapTransaction |-> Some("dHgx"),
          cleanupTransaction |-> Some("dHgy")],
         [setupTransaction |-> None, swapTransaction |-> None,
          cleanupTransaction |-> None],
         [setupTransaction |-> None, swapTransaction |-> Some("!!!!"),
          cleanupTransaction |-> None]}}

RouteMapPayloads ==
    {[shape |-> "route_map", body |-> b] : b \in
        {ExampleRouteMap,
         [mint_keys |-> <<"A", "0OIl">>, indexed_route_map |-> (0 :> <<1>>)],
         [mint_keys |-> <<"A", "B">>, indexed_route_map |-> (0 :> <<1, 2>>)]}}

Payloads(op) ==
    CASE op = "quote" -> {QuotesPayload}
      [] op = "price" -> {PricePayload}
      [] op = "swap" -> SwapPayloads
      [] op = "route_map" -> RouteMapPayloads

Bodies(op) == {NotJson} \cup {Json(v) : v \in {ErrorEnvelope, OtherJson} \cup Payloads(op)}

ConnectFailure == [kind |-> "connect_failure"]

Statuses == {200, 404, 500}

Replies(op) ==
    {ConnectFailure} \cup [kind : {"response"}, status : Statuses, body : Bodies(op)]

ReqwestError(kind) == Err([kind |-> kind, context |-> <<>>])

\* RequestBuilder::send()?
send(reply) ==
    IF reply.kind = "connect_failure" THEN ReqwestError("reqwest::Error(connect)")
    ELSE Ok(reply)

\* Response::error_for_status()?: an error for a 4xx or 5xx status
error_for_status(response) ==
    IF response.status >= 400 /\ response.status <= 599
    THEN ReqwestError("reqwest::Error(status)")
    ELSE Ok(response)

\* Response::json::<serde_json::Value>()?
json_value(response) ==
    IF response.body.json THEN Ok(response.body.value)
    ELSE ReqwestError("reqwest::Error(decode)")

\* serde's deserialization of a JSON value into the success type T
deserialize(T, value) ==
    CASE T = "SwapResponse" /\ value.shape = "swap" -> deserialize_swap_response(value.body)
      [] T = "IndexedRouteMap" /\ value.shape = "route_map" -> Ok(value.body)
      [] T = "Response<Vec<Quote>>" /\ value.shape = "quotes" -> Ok(value.data)
      [] T = "Response<Price>" /\ value.shape = "price" -> Ok(value.data)
      [] OTHER -> Err([kind |-> "serde_json::Error", context |-> <<>>])

\* Response::json::<IndexedRouteMap>()?
json_indexed_route_map(response) ==
    IF ~response.body.json THEN ReqwestError("reqwest::Error(decode)")
    ELSE IF deserialize("IndexedRouteMap", response.body.value).tag = "Err"
    THEN ReqwestError("reqwest::Error(decode)")
    ELSE deserialize("IndexedRouteMap", response.body.value)

\* error::maybe_jupiter_api_error::<T>: the Response Discriminator
maybe_jupiter_api_error(T, value) ==
    IF value.shape = "error"
    THEN Err([kind |-> "JupiterApiError", message |-> value.error, context |-> <<>>])
    ELSE deserialize(T, value)

\* what a call did after its request went out, and how it ended
Outcome(result, stages) == [result |-> result, stages |-> stages]

swap(reply) ==
    LET sent == send(reply)
        checked == error_for_status(sent.val)
        value == json_value(checked.val)
        response == maybe_jupiter_api_error("SwapResponse", value.val)
    IN  IF sent.tag = "Err" THEN Outcome(sent, <<"send">>)
        ELSE IF checked.tag = "Err" THEN Outcome(checked, <<"send", "error_for_status">>)
        ELSE IF value.tag = "Err" THEN Outcome(value, <<"send", "error_for_status", "json">>)
        ELSE IF response.tag = "Err"
        THEN Outcome(response,
                     <<"send", "error_for_status", "json", "maybe_jupiter_api_error">>)
        ELSE Outcome(process_swap_response(response.val),
                     <<"send", "error_for_status", "json", "maybe_jupiter_api_error",
                       "process_swap_response">>)

async_swap(reply) ==
    LET sent == send(reply)
        checked == error_for_status(sent.val)
        value == json_value(checked.val)
        response == maybe_jupiter_api_error("SwapResponse", value.val)
    IN  IF sent.tag = "Err" THEN Outcome(sent, <<"send">>)
        ELSE IF checked.tag = "Err" THEN Outcome(checked, <<"send", "error_for_status">>)
        ELSE IF value.tag = "Err" THEN Outcome(value, <<"send", "error_for_status", "json">>)
        ELSE IF response.tag = "Err"
        THEN Outcome(response,
                     <<"send", "error_for_status", "json", "maybe_jupiter_api_error">>)
        ELSE Outcome(process_swap_response(response.val),
                     <<"send", "error_for_status", "json", "maybe_jupiter_api_error",
                       "process_swap_response">>)

route_map(reply, order) ==
    LET sent == send(reply)
        response == json_indexed_route_map(sent.val)
    IN  IF sent.tag = "Err" THEN Outcome(sent, <<"send">>)
        ELSE IF response.tag = "Err" THEN Outcome(response, <<"send", "json">>)
        ELSE Outcome(process_route_map_response(response.val, order),
                     <<"send", "json", "process_route_map_response">>)

async_route_map(reply, order) ==
    LET sent == send(reply)
        response == json_indexed_route_map(sent.val)
    IN  IF sent.tag = "Err" THEN Outcome(sent, <<"send">>)
        ELSE IF response.tag = "Err" THEN Outcome(response, <<"send", "json">>)
        ELSE Outcome(process_route_map_response(response.val, order),
                     <<"send", "json", "process_route_map_response">>)

quote(reply) ==
    LET sent == send(reply)
        value == json_value(sent.val)
    IN  IF sent.tag = "Err" THEN Outcome(sent, <<"send">>)
        ELSE IF value.tag = "Err" THEN Outcome(value, <<"send", "json">>)
        ELSE Outcome(maybe_jupiter_api_error("Response<Vec<Quote>>", value.val),
                     <<"send", "json", "maybe_jupiter_api_error">>)

async_quote(reply) ==
    LET sent == send(reply)
        value == json_value(sent.val)
        response == maybe_jupiter_api_error("Response<Vec<Quote>>", value.val)
    IN  IF sent.tag = "Err" THEN Outcome(sent, <<"send">>)
        ELSE IF value.tag = "Err" THEN Outcome(value, <<"send", "json">>)
        ELSE IF response.tag = "Err"
        THEN Outcome(response, <<"send", "json", "maybe_jupiter_api_error">>)
        ELSE Outcome(Ok(response.val), <<"send", "json", "maybe_jupiter_api_error">>)

price(reply) ==
    LET sent == send(reply)
        value == json_value(sent.val)
    IN  IF sent.tag = "Err" THEN Outcome(sent, <<"send">>)
        ELSE IF value.tag = "Err" THEN Outcome(value, <<"send", "json">>)
        ELSE Outcome(maybe_jupiter_api_error("Response<Price>", value.val),
                     <<"send", "json", "maybe_jupiter_api_error">>)

async_price(reply) ==
    LET sent == send(reply)
        value == json_value(sent.val)
        response == maybe_jupiter_api_error("Response<Price>", value.val)
    IN  IF sent.tag = "Err" THEN Outcome(sent, <<"send">>)
        ELSE IF value.tag = "Err" THEN Outcome(value, <<"send", "json">>)
        ELSE IF response.tag = "Err"
        THEN Outcome(response, <<"send", "json", "maybe_jupiter_api_error">>)
        ELSE Outcome(Ok(response.val), <<"send", "json", "maybe_jupiter_api_error">>)

\* API::process_swap_input: the swap URL and the SwapRequest body
process_swap_input(self, route, user_public_key, swap_config) ==
    [url |-> swap_str(self),
     request |-> [route |-> route,
                  wrap_unwrap_SOL |-> swap_config.wrap_unwrap_sol,
                  fee_account |->
                      IF swap_config.fee_account.tag = "Some"
                      THEN Some(PubkeyToString(swap_config.fee_account.val)) ELSE None,
                  token_ledger |->
                      IF swap_config.token_ledger.tag = "Some"
                      THEN Some(PubkeyToString(swap_config.token_ledger.val)) ELSE None,
                  user_public_key |-> user_public_key]]

\* the client each call sends its request on: the two statics, except that
\* async_route_map calls reqwest::get, which builds a Client of its own
client(self) == "REQ_CLIENT"

async_client(self) == "ASYNC_REQ_CLIENT"

reqwest_get == "reqwest::get: a new Client"

ClientOf(shape, op) ==
    IF shape = "blocking" THEN client("V1")
    ELSE IF op = "route_map" THEN reqwest_get
    ELSE async_client("V1")

\* the request a call builds: both shapes of an operation build it alike
RequestOf(self, op, args) ==
    CASE op = "quote" ->
            [method |-> "GET", body |-> None,
             url |-> quote_str(self, args.input_mint, args.output_mint, args.amount,
                               args.only_direct_routes, args.slippage, args.fees_bps)]
      [] op = "price" ->
            [method |-> "GET", body |-> None,
             url |-> price_str(self, args.input_mint, args.output_mint, args.ui_amount)]
      [] op = "swap" ->
            LET input == process_swap_input(self, args.route, args.user_public_key,
                                            args.swap_config)
            IN  [method |-> "POST", body |-> Some(input.request), url |-> input.url]
      [] op = "route_map" ->
            [method |-> "GET", body |-> None, url |-> route_map_str(self, args.direct)]

ArgsOf(op) ==
    CASE op = "quote" ->
            [input_mint : {1}, output_mint : {2}, amount : {0, 25},
             only_direct_routes : BOOLEAN, slippage : {"slippage=1"},
             fees_bps : {"", "&feeBps=5"}]
      [] op = "price" ->
            [input_mint : {1}, output_mint : {2, 4},
             ui_amount : {None, Some([class |-> "finite", neg |-> FALSE,
                                      whole |-> 1, tenths |-> 5])}]
      [] op = "swap" ->
            [route : {[route |-> 1]}, user_public_key : {3},
             swap_config : [wrap_unwrap_sol : BOOLEAN, fee_account : {None, Some(1)},
                            token_ledger : {None}]]
      [] op = "route_map" -> [direct : BOOLEAN]

HandlerOf(shape, op, reply, order) ==
    CASE op = "quote" -> IF shape = "blocking" THEN quote(reply) ELSE async_quote(reply)
      [] op = "price" -> IF shape = "blocking" THEN price(reply) ELSE async_price(reply)
      [] op = "swap" -> IF shape = "blocking" THEN swap(reply) ELSE async_swap(reply)
      [] op = "route_map" ->
            IF shape = "blocking" THEN route_map(reply, order)
            ELSE async_route_map(reply, order)

NotCalled ==
    [pc |-> "start", request |-> None, client |-> "none", sends |-> 0,
     reply |-> None, stages |-> <<>>, result |-> NoResult]

IdleFacade ==
    /\ fc_op = "unused"
    /\ fc_args = None
    /\ fc_call = [c \in Shapes |-> NotCalled]

StartFacade ==
    /\ fc_op \in Operations
    /\ fc_args \in ArgsOf(fc_op)
    /\ fc_call = [c \in Shapes |-> NotCalled]

\* the call builds its request and hands it to the transport on its client
Request(c) ==
    /\ fc_call[c].pc = "start"
    /\ fc_call' = [fc_call EXCEPT ![c] =
          [@ EXCEPT !.pc = "sent",
                    !.request = Some(RequestOf("V1", fc_op, fc_args)),
                    !.client = ClientOf(c, fc_op),
                    !.sends = @ + 1]]
    /\ UNCHANGED <<fc_op, fc_args, rmVars, swVars, urlVars>>

\* the transport answers and the call runs to its end
Complete(c) ==
    /\ fc_call[c].pc = "sent"
    /\ \E reply \in Replies(fc_op) :
          LET orders == Orders(IF reply.kind = "response" /\ reply.body.json
                                  /\ reply.body.value.shape = "route_map"
                               THEN DOMAIN reply.body.value.body.indexed_route_map
                               ELSE {})
          IN  \E o \in orders :
                 LET done == HandlerOf(c, fc_op, reply, o)
                 IN  fc_call' = [fc_call EXCEPT ![c] =
                        [@ EXCEPT !.pc = "done",
                                  !.reply = reply,
                                  !.stages = done.stages,
                                  !.result = done.result]]
    /\ UNCHANGED <<fc_op, fc_args, rmVars, swVars, urlVars>>

(***************************************************************************)
(* Specifications.                                                         *)
(***************************************************************************)
InitRouteMap == StartRouteMap /\ IdleSwap /\ IdleUrl /\ IdleFacade

NextRouteMap == ProcessRouteMapResponse

SpecRouteMap == InitRouteMap /\ [][NextRouteMap]_vars

InitSwap == StartSwap /\ IdleRouteMap /\ IdleUrl /\ IdleFacade

NextSwap == DeserializeSwapResponse \/ ProcessSwapResponse

SpecSwap == InitSwap /\ [][NextSwap]_vars

InitUrl == StartUrl /\ IdleRouteMap /\ IdleSwap /\ IdleFacade

NextUrl == RouteMapStr \/ SwapStr \/ PriceStr

SpecUrl == InitUrl /\ [][NextUrl]_vars

Init == StartFacade /\ IdleRouteMap /\ IdleSwap /\ IdleUrl

Next == \E c \in Shapes : Request(c) \/ Complete(c)

Spec == Init /\ [][Next]_vars
(***************************************************************************)
(* Properties of the route-map decompressor, under SpecRouteMap.           *)
(***************************************************************************)
MintKeysParse(response) ==
    \A i \in DOMAIN response.mint_keys : response.mint_keys[i] \in DOMAIN PubkeyText

MintKeysDistinct(response) ==
    \A i, j \in DOMAIN response.mint_keys :
        response.mint_keys[i] = response.mint_keys[j] => i = j

SomeIndexOutOfRange(response) ==
    \E s \in DOMAIN response.indexed_route_map :
        \/ s >= Len(response.mint_keys)
        \/ \E j \in DOMAIN response.indexed_route_map[s] :
              response.indexed_route_map[s][j] >= Len(response.mint_keys)

\* the address the wire names by index i
AddressAt(response, i) == PubkeyText[response.mint_keys[i + 1]]

\* one key per source index, each with its destinations in wire order
ExpectedRouteMap(response) ==
    LET indexed == response.indexed_route_map
    IN  [k \in {AddressAt(response, s) : s \in DOMAIN indexed} |->
            LET s == CHOOSE s \in DOMAIN indexed : AddressAt(response, s) = k
            IN  [j \in DOMAIN indexed[s] |-> AddressAt(response, indexed[s][j])]]

\* C1: when every mint key parses and some source or destination index is
\* at least the length of mintKeys, the call returns an index-out-of-range
\* error value: it produces no RouteMap and does not panic.
C1_OutOfRangeIsReturnedAsError ==
    (rm_pc = "returned" /\ MintKeysParse(rm_response) /\ SomeIndexOutOfRange(rm_response))
        => /\ rm_result.tag = "Err"
           /\ rm_result.err.kind = "IndexOutOfRange"

\* C2: with parseable, pairwise distinct mint keys and every index in
\* range, the call returns the RouteMap that has exactly the key
\* mintKeys[s] for each source index s, whose value is the destinations of
\* s resolved in wire order, repetitions kept.
C2_DecompressesInWireOrder ==
    (rm_pc = "returned" /\ MintKeysParse(rm_response) /\ MintKeysDistinct(rm_response)
     /\ ~SomeIndexOutOfRange(rm_response))
        => rm_result = Ok(ExpectedRouteMap(rm_response))

\* the example of section 8: [A,B,C], {0:[1,2], 1:[2]} gives {A:[B,C], B:[C]}
C2_Witness ==
    /\ rm_pc = "returned"
    /\ rm_response = ExampleRouteMap
    /\ rm_result = Ok((1 :> <<2, 3>>) @@ (2 :> <<3>>))

\* C3: a RouteMap compressed into an IndexedRouteMap, each address given
\* one index, decompresses to the RouteMap it came from: the same keys and
\* for every key the same destination sequence.
C3_RoundTrip ==
    (rm_pc = "returned" /\ rm_origin.given) => rm_result = Ok(rm_origin.map)

C3_Witness ==
    /\ rm_pc = "returned"
    /\ rm_origin.given
    /\ \E k \in DOMAIN rm_origin.map :
          /\ Len(rm_origin.map[k]) = 2
          /\ rm_origin.map[k][1] # rm_origin.map[k][2]
          /\ rm_origin.map[k][1] # k
    /\ rm_result = Ok(rm_origin.map)

(***************************************************************************)
(* Properties of the transaction decode pipeline, under SpecSwap.          *)
(***************************************************************************)
\* the blobs that are base64 of a serialized transaction
WellFormedBlobs == {"dHgx", "dHgy"}

Malformed(field) == field.tag = "Some" /\ field.val \notin WellFormedBlobs

Present(field) == field.tag = "Some"

\* C4: when every present blob is well formed, the Swap has setup exactly
\* when setupTransaction is on the wire, cleanup exactly when
\* cleanupTransaction is, and swap always; a reply without swapTransaction
\* yields no Swap.
C4_PresenceIsMappedPerStage ==
    sw_pc = "returned" =>
        /\ ~Present(sw_wire.swapTransaction) => sw_result.tag = "Err"
        /\ (/\ Present(sw_wire.swapTransaction)
            /\ ~Malformed(sw_wire.setupTransaction)
            /\ ~Malformed(sw_wire.swapTransaction)
            /\ ~Malformed(sw_wire.cleanupTransaction))
           => /\ sw_result.tag = "Ok"
              /\ Present(sw_result.val.setup) <=> Present(sw_wire.setupTransaction)
              /\ Present(sw_result.val.cleanup) <=> Present(sw_wire.cleanupTransaction)
              /\ sw_result.val.swap \in Transactions

C4_Witness ==
    /\ sw_pc = "returned"
    /\ sw_wire = [setupTransaction |-> None, swapTransaction |-> Some("dHgx"),
                  cleanupTransaction |-> Some("dHgy")]
    /\ sw_result = Ok([setup |-> None, swap |-> [transaction |-> 1],
                       cleanup |-> Some([transaction |-> 2])])

\* the first malformed stage of a SwapResponse, in the order setup, swap, cleanup
FirstMalformedStage(response) ==
    IF Malformed(response.setup_transaction) THEN "setup"
    ELSE IF response.swap_transaction \notin WellFormedBlobs THEN "swap"
    ELSE IF Malformed(response.cleanup_transaction) THEN "cleanup"
    ELSE "none"

\* the stage an error names: the context this code attached to it
StageTag(error) == IF error.context = <<>> THEN "untagged" ELSE error.context[1]

\* C10: when some present blob is malformed the call returns no Swap but a
\* decode error tagged with the stage that failed, the first malformed one
\* in the order setup, swap, cleanup.
C10_DecodeErrorNamesFirstBadStage ==
    (sw_pc = "returned" /\ sw_response # None
     /\ FirstMalformedStage(sw_response) # "none")
        => /\ sw_result.tag = "Err"
           /\ StageTag(sw_result.err) = FirstMalformedStage(sw_response)

(***************************************************************************)
(* Properties of the URL builders, under SpecUrl.                          *)
(***************************************************************************)
\* how many times `part` occurs in `text`
Occurrences(part, text) ==
    Cardinality({i \in 1..Len(text) :
        i + Len(part) - 1 <= Len(text) /\ SubSeq(text, i, i + Len(part) - 1) = part})

\* "amount="
AmountEquals == <<"a", "m", "o", "u", "n", "t", "=">>

\* the price URL up to and including the vsToken parameter
PriceUrlBase(input_mint, output_mint) ==
    PriceUrlHead \o TextChars[PubkeyToString(input_mint)] \o VsTokenParam
    \o TextChars[PubkeyToString(output_mint)]

\* C8: price_str without an amount returns a URL with no "amount="; with
\* Some(v) the URL holds exactly one "amount=", followed by v, appended
\* after the id and vsToken parameters.
C8_AmountOnlyWhenGiven ==
    url_call.name = "price_str" =>
        IF url_call.ui_amount.tag = "None"
        THEN Occurrences(AmountEquals, url_got) = 0
        ELSE /\ Occurrences(AmountEquals, url_got) = 1
             /\ url_got = PriceUrlBase(url_call.input_mint, url_call.output_mint)
                          \o <<"&">> \o AmountEquals \o F64Display(url_call.ui_amount.val)

\* a mint whose text is "amount", and no amount given
C8_Witness ==
    /\ url_call.name = "price_str"
    /\ url_call.input_mint = 4
    /\ url_call.ui_amount = None
    /\ url_calls = 2
    /\ Occurrences(<<"a", "m", "o", "u", "n", "t">>, url_got) = 1

\* C9: for every API version route_map_str(direct) is the fixed
\* indexed-route-map URL ending in onlyDirectRoutes=true or =false after
\* the flag, and swap_str() is the fixed swap URL, whatever was called before.
C9_FixedUrls ==
    /\ url_call.name = "route_map_str" =>
          url_got = IF url_call.direct
                    THEN "https://quote-api.jup.ag/v1/indexed-route-map?onlyDirectRoutes=true"
                    ELSE "https://quote-api.jup.ag/v1/indexed-route-map?onlyDirectRoutes=false"
    /\ url_call.name = "swap_str" => url_got = "https://quote-api.jup.ag/v1/swap"

C9_Witness ==
    /\ url_api = "V3"
    /\ url_calls = 2
    /\ url_call = [name |-> "route_map_str", direct |-> FALSE]
    /\ url_got = "https://quote-api.jup.ag/v1/indexed-route-map?onlyDirectRoutes=false"

(***************************************************************************)
(* Properties of the facade calls, under Spec.                             *)
(***************************************************************************)
Done(c) == fc_call[c].pc = "done"

SuccessStatus(reply) == reply.status >= 200 /\ reply.status <= 299

TransportFailed(reply) == reply.kind = "connect_failure" \/ ~SuccessStatus(reply)

TransportError(result) ==
    /\ result.tag = "Err"
    /\ result.err.kind \in {"reqwest::Error(connect)", "reqwest::Error(status)"}

ServiceError(result) ==
    /\ result.tag = "Err"
    /\ result.err.kind = "JupiterApiError"
    /\ result.err.message = ServiceMessage

Ran(c, stage) == \E i \in DOMAIN fc_call[c].stages : fc_call[c].stages[i] = stage

\* C5: for every facade call, when the transport delivers a well-formed
\* error envelope the discriminator runs on the raw JSON and the call
\* returns the service's error with its message.
C5_ErrorEnvelopeIsServiceError ==
    \A c \in Shapes :
        (/\ Done(c)
         /\ fc_call[c].reply.kind = "response"
         /\ SuccessStatus(fc_call[c].reply)
         /\ fc_call[c].reply.body = Json(ErrorEnvelope))
        => /\ ServiceError(fc_call[c].result)
           /\ Ran(c, "maybe_jupiter_api_error")

\* the two shapes of the operation ended alike
SameOutcome ==
    /\ fc_call["blocking"].request = fc_call["nonblocking"].request
    /\ fc_call["blocking"].stages = fc_call["nonblocking"].stages
    /\ fc_call["blocking"].result = fc_call["nonblocking"].result
    /\ \A c \in Shapes : fc_call[c].sends = 1

SharedClients ==
    \A c \in Shapes : fc_call[c].client \in {"REQ_CLIENT", "ASYNC_REQ_CLIENT"}

SameTransportOutcome ==
    /\ \A c \in Shapes : Done(c)
    /\ fc_call["blocking"].reply = fc_call["nonblocking"].reply

\* C6: given the same input and the same transport outcome, the blocking
\* call and its non-blocking counterpart run the same stages, with one
\* transport call each on the shared client, and return the same outcome.
\* the part of C6 that leaves the client aside
ShapesReturnAlike == SameTransportOutcome => SameOutcome

C6_ShapesBehaveAlike == SameTransportOutcome => (SameOutcome /\ SharedClients)

\* C7: for every facade call, a connection failure or a non-2xx status
\* ends the call with a TransportError: the body reaches neither the
\* discriminator nor a decoder, and the transport is called once.
C7_TransportFailureIsTransportError ==
    \A c \in Shapes :
        (Done(c) /\ TransportFailed(fc_call[c].reply))
        => /\ TransportError(fc_call[c].result)
           /\ \A i \in DOMAIN fc_call[c].stages :
                 fc_call[c].stages[i] \in {"send", "error_for_status"}
           /\ fc_call[c].sends = 1
====
